---- MODULE Spec2Model ----
(***************************************************************************)
(* Model of the dashboard query compiler                                   *)
(*   src/src/server/api/services/query-builder.ts                          *)
(* A statement (Prisma.Sql) is a pair: the text, kept as the sequence of   *)
(* its raw fragments with "?" standing for a bound parameter, and the      *)
(* ordered list of bound values.                                           *)
(***************************************************************************)
EXTENDS Integers, Sequences, FiniteSets, TLC

VARIABLES query, pc, projectId, result

vars == <<query, pc, projectId, result>>

-----------------------------------------------------------------------------
(* Bounds of the explored input space *)
MaxSelect == 1
MaxFilters == 3
MaxGroupBy == 2
MaxOrderBy == 1
MaxEntries == 4

-----------------------------------------------------------------------------
(* Bound values keep their runtime type (string, number, Date) *)
StrV(s) == [type |-> "string", s |-> s, n |-> 0]
NumV(n) == [type |-> "number", s |-> "", n |-> n]
DateV(n) == [type |-> "date", s |-> "", n |-> n]

(* Prisma.Sql and its constructors *)
Empty == [text |-> <<>>, values |-> <<>>]
Raw(s) == [text |-> IF s = "" THEN <<>> ELSE <<s>>, values |-> <<>>]
Param(v) == [text |-> <<"?">>, values |-> <<v>>]
Cat(a, b) == [text |-> a.text \o b.text, values |-> a.values \o b.values]

RECURSIVE SqlT(_, _)
(* Prisma.sql`s1 ${p1} s2 ${p2} ... sN`: strings has one more element *)
(* than parts; nested statements are spliced in place.                 *)
SqlT(strings, parts) ==
  IF parts = <<>> THEN Raw(strings[1])
  ELSE Cat(Cat(Raw(strings[1]), parts[1]), SqlT(Tail(strings), Tail(parts)))

RECURSIVE Join(_, _)
(* Prisma.join(list, sep); every call site guards against an empty list *)
Join(list, sep) ==
  IF list = <<>> THEN Empty
  ELSE IF Len(list) = 1 THEN list[1]
  ELSE Cat(Cat(list[1], Raw(sep)), Join(Tail(list), sep))

-----------------------------------------------------------------------------
(* sqlInterface: the validated vocabulary *)
Tables == {"traces", "traces_scores", "observations", "traces_observations",
           "traces_parent_observation_scores"}
Aggregations == {"SUM", "AVG", "COUNT", "MAX", "MIN"}
Directions == {"ASC", "DESC"}
TemporalUnits == {"day", "week", "month"}
FilterOperators(kind) ==
  CASE kind = "datetime" -> {">", "<", ">=", "<="}
    [] kind = "number" -> {"=", ">", "<", ">=", "<="}
    [] kind = "string" -> {"="}
    [] OTHER -> {}

NoAgg == ""
NoUnit == ""

(* tableDefinitions: logical table -> physical source and its columns *)
Col(name, type, internal) == [name |-> name, type |-> type, internal |-> internal]

tracesProjectIdCol == Col("tracesProjectId", "string", "t.\"project_id\"")
observationsProjectIdCol == Col("observationsProjectId", "string", "o.\"project_id\"")

tableDefinitions ==
  [t \in Tables |->
    CASE t = "traces" ->
           [table |-> "traces t",
            columns |-> << Col("timestamp", "datetime", "t.\"timestamp\""),
                           Col("name", "string", "t.\"name\""),
                           Col("type", "string", "t.\"type\""),
                           tracesProjectIdCol >>]
      [] t = "traces_scores" ->
           [table |-> "traces t JOIN scores s ON t.id = s.trace_id",
            columns |-> << Col("timestamp", "datetime", "t.\"timestamp\""),
                           Col("name", "string", "s.\"name\""),
                           Col("type", "string", "s.\"type\""),
                           tracesProjectIdCol >>]
      [] t = "observations" ->
           [table |-> "observations o",
            columns |-> << Col("timestamp", "datetime", "o.\"start_time\""),
                           Col("name", "string", "o.\"name\""),
                           Col("type", "string", "o.\"type\""),
                           observationsProjectIdCol >>]
      [] t = "traces_observations" ->
           [table |-> "traces t LEFT JOIN observations o ON t.id = o.trace_id",
            columns |-> << Col("timestamp", "datetime", "t.\"timestamp\""),
                           Col("name", "string", "t.\"name\""),
                           Col("type", "string", "o.\"type\""),
                           tracesProjectIdCol,
                           observationsProjectIdCol >>]
      [] OTHER ->
           [table |-> "traces t LEFT JOIN observations o ON t.id = o.trace_id LEFT JOIN scores s ON t.id = s.trace_id",
            columns |-> << Col("timestamp", "datetime", "t.\"timestamp\""),
                           Col("name", "string", "s.\"name\""),
                           Col("type", "string", "o.\"type\""),
                           tracesProjectIdCol,
                           observationsProjectIdCol >>]]

SeqRange(s) == {s[i] : i \in 1..Len(s)}
ColumnNames(table) == {c.name : c \in SeqRange(tableDefinitions[table].columns)}

(* Array.prototype.find over the column list: the first match *)
FindColumn(columns, name) ==
  LET hits == {i \in 1..Len(columns) : columns[i].name = name}
  IN IF hits = {} THEN <<>>
     ELSE <<columns[CHOOSE i \in hits : \A j \in hits : i <= j]>>

(* String.prototype.toLowerCase on the aggregation keywords *)
toLowerCase(s) ==
  CASE s = "SUM" -> "sum"
    [] s = "AVG" -> "avg"
    [] s = "COUNT" -> "count"
    [] s = "MAX" -> "max"
    [] s = "MIN" -> "min"
    [] OTHER -> s

capitalizeFirstLetter(str) ==
  CASE str = "timestamp" -> "Timestamp"
    [] str = "name" -> "Name"
    [] str = "type" -> "Type"
    [] str = "tracesProjectId" -> "TracesProjectId"
    [] str = "observationsProjectId" -> "ObservationsProjectId"
    [] OTHER -> str

-----------------------------------------------------------------------------
(* Outcomes: a statement, or the error that aborted compilation *)
Ok(sql) == [ok |-> TRUE, err |-> "", sql |-> sql]
Fail(e) == [ok |-> FALSE, err |-> e, sql |-> Empty]

ValidationError == "ValidationError"
ColumnNotFound == "ColumnNotFound"
MultipleDatetimeGroupBy == "Only one datetime group by is supported"
MismatchedRangeColumn == "Min date column, max date column must match group by column"

getTableSql(table) == Raw(tableDefinitions[table].table)

(* returns <<column>> or <<>> when the lookup throws *)
getColumnDefinition(table, column) ==
  FindColumn(tableDefinitions[table].columns, column)

getInternalSql(colDef) == Raw(colDef.internal)

-----------------------------------------------------------------------------
(* Results of Array.prototype.map when the callback may throw: the first *)
(* throwing element aborts the whole map.                                *)
AllOk(rs) == \A i \in 1..Len(rs) : rs[i].ok
FirstErr(rs) ==
  rs[CHOOSE i \in 1..Len(rs) : ~rs[i].ok /\ \A j \in 1..(i - 1) : rs[j].ok].err
Sqls(rs) == [i \in 1..Len(rs) |-> rs[i].sql]

(* sqlInterface.parse: shape and allow-list checks only, no column checks *)
ValidFilter(f) ==
  /\ f.type \in {"string", "number", "datetime"}
  /\ f.operator \in FilterOperators(f.type)
  /\ f.value.type = (IF f.type = "datetime" THEN "date" ELSE f.type)
ValidGroupBy(g) ==
  IF g.type = "datetime" THEN g.temporalUnit \in TemporalUnits
  ELSE g.type \in {"string", "number"} /\ g.temporalUnit = NoUnit
Validate(q) ==
  /\ q.from \in Tables
  /\ \A i \in 1..Len(q.select) : q.select[i].agg \in Aggregations \cup {NoAgg}
  /\ \A i \in 1..Len(q.filter) : ValidFilter(q.filter[i])
  /\ \A i \in 1..Len(q.groupBy) : ValidGroupBy(q.groupBy[i])
  /\ \A i \in 1..Len(q.orderBy) :
       /\ q.orderBy[i].agg \in Aggregations \cup {NoAgg}
       /\ q.orderBy[i].direction \in Directions
  /\ \A i \in 1..Len(q.limit) : q.limit[i] >= 0

-----------------------------------------------------------------------------
(* variant: the observation filter is forgotten for the two-entity tables *)
TraceFilterOnly(table, pid) ==
  << [type |-> "string", column |-> "tracesProjectId", operator |-> "=",
      value |-> StrV(pid)] >>

getMandatoryFilter(table, pid) ==
  LET observationFilter == [type |-> "string", column |-> "observationsProjectId",
                            operator |-> "=", value |-> StrV(pid)]
      traceFilter == [type |-> "string", column |-> "tracesProjectId",
                      operator |-> "=", value |-> StrV(pid)]
  IN CASE table \in {"traces", "traces_scores"} -> <<traceFilter>>
       [] table \in {"traces_observations", "traces_parent_observation_scores"} ->
            <<traceFilter, observationFilter>>
       [] OTHER -> <<observationFilter>>

isTimeRangeFilter(filter) == filter.type = "datetime"

(* Array.prototype.find: <<first match>> or <<>>, given the matches in order *)
FirstMatch(hits) == IF hits = <<>> THEN <<>> ELSE <<hits[1]>>

IsLowerBound(x) == x.operator = ">" \/ x.operator = ">="
IsUpperBound(x) == x.operator = "<" \/ x.operator = "<="

(* variant: only the lower bound is compared with the group-by column *)
MinColumnMismatchOnly(minDateColumn, maxDateColumn, groupByColumn) ==
  minDateColumn.column # groupByColumn.column

RangeColumnMismatch(minDateColumn, maxDateColumn, groupByColumn) ==
  \/ minDateColumn.column # groupByColumn.column
  \/ maxDateColumn.column # groupByColumn.column

NoColumn == Col("", "", "")
NoCte == [kind |-> "none", err |-> "", cte |-> Empty, from |-> Empty,
          column |-> NoColumn]
CteError(e) == [NoCte EXCEPT !.kind = "error", !.err = e]

createDateRangeCte(from, filters, groupBy) ==
  LET groupByColumns == SelectSeq(groupBy, LAMBDA x : x.type = "datetime")
  IN
  IF Len(groupByColumns) = 0 THEN NoCte
  ELSE IF Len(groupByColumns) > 1 THEN CteError(MultipleDatetimeGroupBy)
  ELSE
    LET groupByColumn == groupByColumns[1]
        dateTimeFilters == SelectSeq(filters, isTimeRangeFilter)
        minDateColumn == IF Len(dateTimeFilters) > 1
                         THEN FirstMatch(SelectSeq(dateTimeFilters, IsLowerBound))
                         ELSE <<>>
        maxDateColumn == IF Len(dateTimeFilters) > 1
                         THEN FirstMatch(SelectSeq(dateTimeFilters, IsUpperBound))
                         ELSE <<>>
    IN
    IF /\ groupByColumn.temporalUnit # NoUnit
       /\ minDateColumn # <<>>
       /\ maxDateColumn # <<>>
    THEN
      IF RangeColumnMismatch(minDateColumn[1], maxDateColumn[1], groupByColumn)
      THEN CteError(MismatchedRangeColumn)
      ELSE
        LET startColumn == getColumnDefinition(from, minDateColumn[1].column)
        IN
        IF startColumn = <<>> THEN CteError(ColumnNotFound)
        ELSE
          [kind |-> "cte", err |-> "",
           cte |-> SqlT(<<"WITH date_series AS ( SELECT generate_series(", ", ",
                          ", '1 ", "') as date )">>,
                        <<Param(minDateColumn[1].value),
                          Param(maxDateColumn[1].value),
                          Raw(groupByColumn.temporalUnit)>>),
           from |-> SqlT(<<" FROM date_series LEFT JOIN ", " ON DATE_TRUNC('",
                           "', ", ") = DATE_TRUNC('",
                           "', date_series.\"date\")">>,
                         <<getTableSql(from), Raw(groupByColumn.temporalUnit),
                           getInternalSql(startColumn[1]),
                           Raw(groupByColumn.temporalUnit)>>),
           column |-> startColumn[1]]
    ELSE NoCte

-----------------------------------------------------------------------------
createAggregatedColumn(from, column, agg) ==
  LET def == getColumnDefinition(from, column)
  IN IF def = <<>> THEN Fail(ColumnNotFound)
     ELSE IF agg # NoAgg
     THEN Ok(SqlT(<<"", "(", ")">>, <<Raw(agg), getInternalSql(def[1])>>))
     ELSE Ok(getInternalSql(def[1]))

prepareOrderByString(from, orderBy, hasCte) ==
  LET orderBys == [i \in 1..Len(orderBy) |->
        LET c == createAggregatedColumn(from, orderBy[i].column, orderBy[i].agg)
        IN IF ~c.ok THEN c
           ELSE Ok(SqlT(<<"", " ", "">>, <<c.sql, Raw(orderBy[i].direction)>>))]
  IN IF ~AllOk(orderBys) THEN Fail(FirstErr(orderBys))
     ELSE LET addedCte == IF hasCte
                          THEN <<Raw("date_series.\"date\" ASC")>> \o Sqls(orderBys)
                          ELSE Sqls(orderBys)
          IN IF Len(addedCte) > 0
             THEN Ok(Cat(Raw(" ORDER BY "), Join(addedCte, ", ")))
             ELSE Ok(Empty)

(* variant: the cast is keyed on the column name alone *)
CastForColumnOnly(table, column) == column.name = "type"

NeedsCast(table, column) == column.name = "type" /\ table = "observations"

(* the text a value would contribute if it were spliced in as raw SQL *)
Literal(v) == IF v.type = "string" THEN v.s ELSE ToString(v.n)

(* variant: the filter value is spliced into the text with Prisma.raw *)
prepareFilterStringInlined(table, filter, columnDefinitions) ==
  LET filters == [i \in 1..Len(filter) |->
        LET column == FindColumn(columnDefinitions, filter[i].column)
        IN IF column = <<>> THEN Fail(ColumnNotFound)
           ELSE Ok(SqlT(<<"", " ", " ", "">>,
                        <<getInternalSql(column[1]), Raw(filter[i].operator),
                          Raw(Literal(filter[i].value))>>))]
  IN IF ~AllOk(filters) THEN Fail(FirstErr(filters))
     ELSE Ok(Join(Sqls(filters), " AND "))

prepareFilterString(table, filter, columnDefinitions) ==
  LET filters == [i \in 1..Len(filter) |->
        LET column == FindColumn(columnDefinitions, filter[i].column)
        IN IF column = <<>> THEN Fail(ColumnNotFound)
           ELSE IF filter[i].type = "datetime"
           THEN Ok(SqlT(<<"", " ", " ", "">>,
                        <<getInternalSql(column[1]), Raw(filter[i].operator),
                          Param(filter[i].value)>>))
           ELSE Ok(SqlT(<<"", " ", " ", " ", "">>,
                        <<getInternalSql(column[1]), Raw(filter[i].operator),
                          Param(filter[i].value),
                          IF NeedsCast(table, column[1])
                          THEN Raw("::\"ObservationType\"") ELSE Empty>>))]
  IN IF ~AllOk(filters) THEN Fail(FirstErr(filters))
     ELSE Ok(Join(Sqls(filters), " AND "))

(* variant: a datetime entry returns before its column is resolved *)
prepareGroupByUnresolved(table, groupBy) ==
  IF groupBy.type = "datetime" THEN Ok(Raw("date_series.\"date\""))
  ELSE LET def == getColumnDefinition(table, groupBy.column)
       IN IF def = <<>> THEN Fail(ColumnNotFound) ELSE Ok(getInternalSql(def[1]))

prepareGroupBy(table, groupBy) ==
  LET def == getColumnDefinition(table, groupBy.column)
  IN IF def = <<>> THEN Fail(ColumnNotFound)
     ELSE IF groupBy.type = "datetime" THEN Ok(Raw("date_series.\"date\""))
     ELSE Ok(getInternalSql(def[1]))

-----------------------------------------------------------------------------
(* The clauses createQuery assembles, in the order it evaluates them *)
selectString(q, cte) ==
  LET fields == [i \in 1..Len(q.select) |->
        LET safeColumn == getColumnDefinition(q.from, q.select[i].column)
            agg == q.select[i].agg
        IN IF safeColumn = <<>> THEN Fail(ColumnNotFound)
           ELSE IF agg # NoAgg
           THEN Ok(SqlT(<<"", "(", ") as \"", "", "\"">>,
                        <<Raw(agg), getInternalSql(safeColumn[1]),
                          Raw(toLowerCase(agg)),
                          Raw(capitalizeFirstLetter(safeColumn[1].name))>>))
           ELSE Ok(SqlT(<<"", " as \"", "\"">>,
                        <<getInternalSql(safeColumn[1]), Raw(safeColumn[1].name)>>))]
  IN IF ~AllOk(fields) THEN Fail(FirstErr(fields))
     ELSE LET selectFields ==
                IF cte.kind = "cte"
                THEN <<SqlT(<<"date_series.\"date\" as \"", "\"">>,
                            <<Raw(cte.column.name)>>)>> \o Sqls(fields)
                ELSE Sqls(fields)
          IN IF Len(selectFields) > 0
             THEN Ok(Cat(Raw(" SELECT "), Join(selectFields, ", ")))
             ELSE Ok(Empty)

(* variant: the datetime entry is moved to the front of the list *)
groupStringSeriesFirst(q, cte) ==
  IF Len(q.groupBy) > 0 \/ cte.kind = "cte"
  THEN LET cats == SelectSeq(q.groupBy, LAMBDA g : g.type # "datetime")
           dates == SelectSeq(q.groupBy, LAMBDA g : g.type = "datetime")
           ordered == dates \o cats
           groupByFields == [i \in 1..Len(ordered) |->
                               prepareGroupBy(q.from, ordered[i])]
       IN IF ~AllOk(groupByFields) THEN Fail(FirstErr(groupByFields))
          ELSE IF Len(groupByFields) > 0
          THEN Ok(Cat(Raw(" GROUP BY "), Join(Sqls(groupByFields), ", ")))
          ELSE Ok(Empty)
  ELSE Ok(Empty)

groupString(q, cte) ==
  IF Len(q.groupBy) > 0 \/ cte.kind = "cte"
  THEN LET groupByFields == [i \in 1..Len(q.groupBy) |->
                               prepareGroupBy(q.from, q.groupBy[i])]
       IN IF ~AllOk(groupByFields) THEN Fail(FirstErr(groupByFields))
          ELSE IF Len(groupByFields) > 0
          THEN Ok(Cat(Raw(" GROUP BY "), Join(Sqls(groupByFields), ", ")))
          ELSE Ok(Empty)
  ELSE Ok(Empty)

(* variant: the clause is introduced by AND even without a CTE *)
filterStringAlwaysAnd(q, cte) ==
  IF Len(q.filter) > 0
  THEN LET fs == prepareFilterString(q.from, q.filter,
                                     tableDefinitions[q.from].columns)
       IN IF ~fs.ok THEN fs
          ELSE Ok(SqlT(<<" ", " ", "">>, <<Raw(" AND "), fs.sql>>))
  ELSE Ok(Empty)

(* variant: with a CTE the datetime filters are left out of the clause *)
filterStringConsumed(q, cte) ==
  LET rest == IF cte.kind = "cte"
              THEN SelectSeq(q.filter, LAMBDA f : ~isTimeRangeFilter(f))
              ELSE q.filter
  IN IF Len(rest) > 0
     THEN LET fs == prepareFilterString(q.from, rest,
                                        tableDefinitions[q.from].columns)
          IN IF ~fs.ok THEN fs
             ELSE Ok(SqlT(<<" ", " ", "">>,
                          <<IF cte.kind = "cte" THEN Raw(" AND ")
                            ELSE Raw(" WHERE "), fs.sql>>))
     ELSE Ok(Empty)

filterString(q, cte) ==
  IF Len(q.filter) > 0
  THEN LET fs == prepareFilterString(q.from, q.filter,
                                     tableDefinitions[q.from].columns)
       IN IF ~fs.ok THEN fs
          ELSE Ok(SqlT(<<" ", " ", "">>,
                       <<IF cte.kind = "cte" THEN Raw(" AND ")
                         ELSE Raw(" WHERE "), fs.sql>>))
  ELSE Ok(Empty)

(* `query.limit ? ... : Prisma.empty`: undefined and 0 are both falsy *)
limitString(q) ==
  IF q.limit # <<>> /\ q.limit[1] # 0
  THEN SqlT(<<" LIMIT ", "">>, <<Param(NumV(q.limit[1]))>>)
  ELSE Empty

createQuery(q) ==
  IF ~Validate(q) THEN Fail(ValidationError)
  ELSE
  LET cte == createDateRangeCte(q.from, q.filter, q.groupBy)
  IN
  IF cte.kind = "error" THEN Fail(cte.err)
  ELSE
  LET fromString == IF cte.kind = "cte" THEN cte.from
                    ELSE Cat(Raw(" FROM "), getTableSql(q.from))
      sel == selectString(q, cte)
      grp == groupString(q, cte)
      ord == prepareOrderByString(q.from, q.orderBy, cte.kind = "cte")
      fil == filterString(q, cte)
      steps == <<sel, grp, ord, fil>>
  IN
  IF ~AllOk(steps) THEN Fail(FirstErr(steps))
  ELSE Ok(SqlT(<<"", "", "", "", "", "", "", ";">>,
               <<cte.cte, sel.sql, fromString, fil.sql, grp.sql, ord.sql,
                 limitString(q)>>))

enrichAndCreateQuery(pid, q) ==
  IF ~Validate(q) THEN Fail(ValidationError)
  ELSE createQuery([q EXCEPT !.filter = q.filter \o getMandatoryFilter(q.from, pid)])

-----------------------------------------------------------------------------
(* Inputs: what a caller may put into a query *)
TenantIds == {"p1", "p2"}

SelectPool ==
  {[column |-> "timestamp", agg |-> NoAgg],
   [column |-> "timestamp", agg |-> "COUNT"],
   [column |-> "evil", agg |-> NoAgg]}

FilterPool ==
  {[type |-> "datetime", column |-> "timestamp", operator |-> ">=",
    value |-> DateV(10)],
   [type |-> "datetime", column |-> "timestamp", operator |-> "<",
    value |-> DateV(20)],
   [type |-> "datetime", column |-> "type", operator |-> "<",
    value |-> DateV(20)],
   [type |-> "string", column |-> "type", operator |-> "=", value |-> StrV("SPAN")],
   [type |-> "number", column |-> "type", operator |-> "=", value |-> NumV(7)],
   [type |-> "string", column |-> "tracesProjectId", operator |-> "=",
    value |-> StrV("p1")]}

GroupByPool ==
  {[type |-> "datetime", column |-> "timestamp", temporalUnit |-> "day"],
   [type |-> "datetime", column |-> "evil", temporalUnit |-> "day"],
   [type |-> "string", column |-> "name", temporalUnit |-> NoUnit]}

OrderByPool ==
  {[column |-> "timestamp", agg |-> NoAgg, direction |-> "ASC"],
   [column |-> "timestamp", agg |-> "COUNT", direction |-> "DESC"],
   [column |-> "evil", agg |-> NoAgg, direction |-> "DESC"]}

LimitPool == {-1, 0, 2}

Entries(q) ==
  Len(q.select) + Len(q.filter) + Len(q.groupBy) + Len(q.orderBy) + Len(q.limit)

Pending == Fail("pending")

Init ==
  /\ pc = "input"
  /\ projectId = ""
  /\ result = Pending
  /\ \E t \in Tables :
       query = [from |-> t, select |-> <<>>, filter |-> <<>>, groupBy |-> <<>>,
                orderBy |-> <<>>, limit |-> <<>>]

AddSelect ==
  /\ pc = "input" /\ Len(query.select) < MaxSelect /\ Entries(query) < MaxEntries
  /\ \E s \in SelectPool : query' = [query EXCEPT !.select = Append(@, s)]
  /\ UNCHANGED <<pc, projectId, result>>

AddFilter ==
  /\ pc = "input" /\ Len(query.filter) < MaxFilters /\ Entries(query) < MaxEntries
  /\ \E f \in FilterPool : query' = [query EXCEPT !.filter = Append(@, f)]
  /\ UNCHANGED <<pc, projectId, result>>

AddGroupBy ==
  /\ pc = "input" /\ Len(query.groupBy) < MaxGroupBy /\ Entries(query) < MaxEntries
  /\ \E g \in GroupByPool : query' = [query EXCEPT !.groupBy = Append(@, g)]
  /\ UNCHANGED <<pc, projectId, result>>

AddOrderBy ==
  /\ pc = "input" /\ Len(query.orderBy) < MaxOrderBy /\ Entries(query) < MaxEntries
  /\ \E o \in OrderByPool : query' = [query EXCEPT !.orderBy = Append(@, o)]
  /\ UNCHANGED <<pc, projectId, result>>

SetLimit ==
  /\ pc = "input" /\ query.limit = <<>> /\ Entries(query) < MaxEntries
  /\ \E n \in LimitPool : query' = [query EXCEPT !.limit = <<n>>]
  /\ UNCHANGED <<pc, projectId, result>>

CallCreateQuery ==
  /\ pc = "input"
  /\ pc' = "createQuery"
  /\ result' = createQuery(query)
  /\ UNCHANGED <<query, projectId>>

CallEnrichAndCreateQuery ==
  /\ pc = "input"
  /\ \E pid \in TenantIds :
       /\ projectId' = pid
       /\ result' = enrichAndCreateQuery(pid, query)
  /\ pc' = "enrichAndCreateQuery"
  /\ UNCHANGED query

Next ==
  \/ AddSelect
  \/ AddFilter
  \/ AddGroupBy
  \/ AddOrderBy
  \/ SetLimit
  \/ CallCreateQuery
  \/ CallEnrichAndCreateQuery

Spec == Init /\ [][Next]_vars

-----------------------------------------------------------------------------
(* Reading a compiled statement *)
Text == result.sql.text
Values == result.sql.values
Returned == pc # "input" /\ result.ok

(* the query createQuery receives: enrichAndCreateQuery appends the tenant *)
(* filters to the caller's list first                                      *)
Compiled ==
  IF pc = "enrichAndCreateQuery"
  THEN [query EXCEPT !.filter = @ \o getMandatoryFilter(query.from, projectId)]
  ELSE query

Count(seq, x) == Cardinality({i \in 1..Len(seq) : seq[i] = x})
Tokens(seq) == {seq[i] : i \in 1..Len(seq)}
Squeeze(text) == SelectSeq(text, LAMBDA t : t # " ")

RECURSIVE Flatten(_, _)
(* the token lists of `items`, separated by `sep` *)
Flatten(items, sep) ==
  IF items = <<>> THEN <<>>
  ELSE IF Len(items) = 1 THEN items[1]
  ELSE items[1] \o <<sep>> \o Flatten(Tail(items), sep)

InternalOf(table, name) ==
  LET cs == tableDefinitions[table].columns
  IN cs[CHOOSE i \in 1..Len(cs) : cs[i].name = name].internal

ParamsUpTo(text, i) == Cardinality({j \in 1..i : text[j] = "?"})

(* occurrences of the predicate  <internal> = ?  with the parameter bound to v *)
PredicateCount(sql, internal, v) ==
  Cardinality({i \in 1..(Len(sql.text) - 4) :
     /\ sql.text[i] = internal
     /\ sql.text[i + 1] = " " /\ sql.text[i + 2] = "=" /\ sql.text[i + 3] = " "
     /\ sql.text[i + 4] = "?"
     /\ sql.values[ParamsUpTo(sql.text, i + 4)] = v})

TenantColumns(table) ==
  CASE table \in {"traces", "traces_scores"} -> <<"tracesProjectId">>
    [] table = "observations" -> <<"observationsProjectId">>
    [] OTHER -> <<"tracesProjectId", "observationsProjectId">>

TenantFilter(column, pid) ==
  [type |-> "string", column |-> column, operator |-> "=", value |-> StrV(pid)]

DatetimeGroupBys(q) == SelectSeq(q.groupBy, LAMBDA g : g.type = "datetime")
DatetimeFilters(q) == SelectSeq(q.filter, LAMBDA f : f.type = "datetime")
LowerBounds(q) == SelectSeq(DatetimeFilters(q), IsLowerBound)
UpperBounds(q) == SelectSeq(DatetimeFilters(q), IsUpperBound)
HasBothBounds(q) == LowerBounds(q) # <<>> /\ UpperBounds(q) # <<>>
OneBucketDimension(q) ==
  Len(DatetimeGroupBys(q)) = 1 /\ DatetimeGroupBys(q)[1].temporalUnit # NoUnit
BucketColumn(q) == DatetimeGroupBys(q)[1].column
FirstBoundMismatch(q) ==
  \/ LowerBounds(q)[1].column # BucketColumn(q)
  \/ UpperBounds(q)[1].column # BucketColumn(q)

QueryColumns(q) ==
  {q.select[i].column : i \in 1..Len(q.select)}
    \cup {q.filter[i].column : i \in 1..Len(q.filter)}
    \cup {q.groupBy[i].column : i \in 1..Len(q.groupBy)}
    \cup {q.orderBy[i].column : i \in 1..Len(q.orderBy)}
UnknownColumn(q) == \E c \in QueryColumns(q) : c \notin ColumnNames(q.from)

(* a bucket plan was produced for a statement that was returned *)
Bucketed ==
  /\ Returned
  /\ OneBucketDimension(Compiled) /\ HasBothBounds(Compiled)
  /\ ~FirstBoundMismatch(Compiled)

SeriesColumn == "date_series.\"date\""
ClauseStarts == {" ORDER BY ", " LIMIT ", ";"}

(* the tokens of the GROUP BY list, or <<>> when there is no GROUP BY *)
GroupByClause(text) ==
  LET starts == {i \in 1..Len(text) : text[i] = " GROUP BY "}
  IN IF starts = {} THEN <<>>
     ELSE LET b == CHOOSE i \in starts : TRUE
              e == CHOOSE j \in (b + 1)..Len(text) :
                     /\ text[j] \in ClauseStarts
                     /\ \A k \in (b + 1)..(j - 1) : text[k] \notin ClauseStarts
          IN SubSeq(text, b + 1, e - 1)

-----------------------------------------------------------------------------
(* C1 (as stated): the statement enrichAndCreateQuery produces contains the *)
(* tenant predicate <tenant column> = P exactly once per underlying entity  *)
(* of the table, whatever filters the caller supplied.                      *)
C1_ExactlyOncePerEntity ==
  (pc = "enrichAndCreateQuery" /\ result.ok) =>
    \A k \in 1..Len(TenantColumns(query.from)) :
      PredicateCount(result.sql,
                     InternalOf(query.from, TenantColumns(query.from)[k]),
                     StrV(projectId)) = 1

(* C1 (amended): the injected tenant predicate is added once per underlying *)
(* entity on top of the caller's own filters: the statement contains the    *)
(* predicate <tenant column> = P once more than the caller supplied that    *)
(* very filter, with P bound as a parameter.                                *)
C1_InjectedOncePerEntity ==
  (pc = "enrichAndCreateQuery" /\ result.ok) =>
    \A k \in 1..Len(TenantColumns(query.from)) :
      LET column == TenantColumns(query.from)[k]
      IN PredicateCount(result.sql, InternalOf(query.from, column),
                        StrV(projectId))
           = 1 + Count(query.filter, TenantFilter(column, projectId))

C1_Witness ==
  /\ pc = "enrichAndCreateQuery" /\ result.ok
  /\ query.from = "traces_observations"
  /\ Count(query.filter, TenantFilter("tracesProjectId", projectId)) = 1
  /\ PredicateCount(result.sql, "o.\"project_id\"", StrV(projectId)) = 1

-----------------------------------------------------------------------------
SyntaxFragments ==
  {" SELECT ", " FROM ", " WHERE ", " AND ", " GROUP BY ", " ORDER BY ",
   " LIMIT ", ";", ", ", " ", "(", ")", ") as \"", " as \"", "\"", "?",
   "::\"ObservationType\"", "date_series.\"date\"", "date_series.\"date\" ASC",
   "date_series.\"date\" as \"",
   "WITH date_series AS ( SELECT generate_series(", ", '1 ", "') as date )",
   " FROM date_series LEFT JOIN ", " ON DATE_TRUNC('", "', ",
   ") = DATE_TRUNC('", "', date_series.\"date\")"}

RegistryFragments ==
  UNION {{tableDefinitions[t].table} \cup
         UNION {{c.internal, c.name, capitalizeFirstLetter(c.name)} :
                  c \in SeqRange(tableDefinitions[t].columns)} : t \in Tables}

KeywordFragments ==
  Aggregations \cup {toLowerCase(a) : a \in Aggregations} \cup Directions
    \cup TemporalUnits \cup UNION {FilterOperators(k) : k \in {"string", "number", "datetime"}}

TrustedFragments == SyntaxFragments \cup RegistryFragments \cup KeywordFragments

(* what the caller controls: column strings, literal values, tenant id, limit *)
SuppliedValues ==
  {Compiled.filter[i].value : i \in 1..Len(Compiled.filter)}
    \cup {NumV(query.limit[i]) : i \in 1..Len(query.limit)}
SuppliedStrings ==
  (QueryColumns(query) \ RegistryFragments)
    \cup {Literal(v) : v \in SuppliedValues} \cup {projectId}

(* C2: in every statement returned, every text fragment comes from the     *)
(* registry or an allow-listed keyword (or the fixed syntax), no supplied  *)
(* column string or literal occurs in the text, and filter values, bucket  *)
(* bounds, tenant id and limit occur only as bound parameters.             *)
C2_OnlyBoundParameters ==
  Returned =>
    LET fragments == Tokens(Text)
        bound == Tokens(Values)
        supplied == SuppliedValues
    IN /\ fragments \subseteq TrustedFragments
       /\ fragments \cap SuppliedStrings = {}
       /\ Count(Text, "?") = Len(Values)
       /\ bound \subseteq supplied
       /\ {Compiled.filter[i].value : i \in 1..Len(Compiled.filter)} \subseteq bound
       /\ pc = "enrichAndCreateQuery" => StrV(projectId) \in bound

C2_Witness ==
  /\ pc = "enrichAndCreateQuery" /\ result.ok
  /\ Bucketed
  /\ query.limit = <<2>>
  /\ Values = <<DateV(10), DateV(20), DateV(10), DateV(20), StrV(projectId), NumV(2)>>

-----------------------------------------------------------------------------
PlainSelect(q) ==
  /\ Len(q.select) = 1 /\ q.select[1].agg = NoAgg
  /\ q.select[1].column \in ColumnNames(q.from)
  /\ q.filter = <<>> /\ q.groupBy = <<>> /\ q.orderBy = <<>> /\ q.limit = <<>>

TenantPredicates(table) ==
  Flatten([k \in 1..Len(TenantColumns(table)) |->
             <<InternalOf(table, TenantColumns(table)[k]), "=", "?">>], " AND ")

(* SELECT <col> FROM <physical(T)> WHERE <tenantPredicate(P)>; and nothing else *)
PlainShape ==
  Squeeze(Text) =
    <<" SELECT ", InternalOf(query.from, query.select[1].column), " as \"",
      query.select[1].column, "\"", " FROM ", tableDefinitions[query.from].table,
      " WHERE ">> \o TenantPredicates(query.from) \o <<";">>

(* C3 (as stated): a one-column query without aggregation, filter, group-by, *)
(* order-by and limit compiles through enrichAndCreateQuery to               *)
(* SELECT <col> FROM <physical(T)> WHERE <tenantPredicate(P)>; and its       *)
(* parameter list holds exactly one parameter, P, for every table T.         *)
C3_SoleParameter ==
  (pc = "enrichAndCreateQuery" /\ PlainSelect(query)) =>
    /\ result.ok
    /\ PlainShape
    /\ Values = <<StrV(projectId)>>

(* C3 (amended): the same shape, and the parameter list holds P once per    *)
(* underlying entity of T: one parameter for traces, traces_scores and      *)
(* observations, two for traces_observations and                            *)
(* traces_parent_observation_scores.                                        *)
C3_OneParameterPerEntity ==
  (pc = "enrichAndCreateQuery" /\ PlainSelect(query)) =>
    /\ result.ok
    /\ PlainShape
    /\ Values = [k \in 1..Len(TenantColumns(query.from)) |-> StrV(projectId)]

C3_Witness ==
  /\ pc = "enrichAndCreateQuery" /\ PlainSelect(query) /\ result.ok
  /\ query.from = "traces_parent_observation_scores"
  /\ Values = <<StrV(projectId), StrV(projectId)>>

-----------------------------------------------------------------------------
IsLowerFilter(f) == f.type = "datetime" /\ IsLowerBound(f)
IsUpperFilter(f) == f.type = "datetime" /\ IsUpperBound(f)
LowerIndex(q) ==
  CHOOSE i \in 1..Len(q.filter) :
    IsLowerFilter(q.filter[i]) /\ \A j \in 1..(i - 1) : ~IsLowerFilter(q.filter[j])
UpperIndex(q) ==
  CHOOSE i \in 1..Len(q.filter) :
    IsUpperFilter(q.filter[i]) /\ \A j \in 1..(i - 1) : ~IsUpperFilter(q.filter[j])
FilterValues(q, skip) ==
  LET keep == SelectSeq([i \in 1..Len(q.filter) |-> i], LAMBDA i : i \notin skip)
  IN [k \in 1..Len(keep) |-> q.filter[keep[k]].value]
IsPrefix(p, seq) == Len(p) <= Len(seq) /\ SubSeq(seq, 1, Len(p)) = p

(* C4 (as stated): when a bucket plan is produced, the lower- and upper-   *)
(* bound filters are consumed by the date-series CTE: their values are     *)
(* bound once as the series bounds and the two filters do not appear again *)
(* as predicates of the filter clause.                                     *)
C4_BoundsConsumed ==
  Bucketed =>
    /\ IsPrefix(<<Compiled.filter[LowerIndex(Compiled)].value,
                  Compiled.filter[UpperIndex(Compiled)].value>>
                  \o FilterValues(Compiled, {LowerIndex(Compiled), UpperIndex(Compiled)}),
                Values)
    /\ Len(Values) <= Len(Compiled.filter) + 1

(* C4 (amended): when a bucket plan is produced, the values of the lower-  *)
(* and upper-bound filters are bound as the series bounds of the CTE, and  *)
(* every filter of the list, the two bound filters included, is compiled   *)
(* again as a predicate of the filter clause after the join: the parameter *)
(* list starts with the two bounds followed by the value of every filter   *)
(* in the order given.                                                     *)
C4_BoundsAlsoFiltered ==
  Bucketed =>
    /\ IsPrefix(<<Compiled.filter[LowerIndex(Compiled)].value,
                  Compiled.filter[UpperIndex(Compiled)].value>>
                  \o FilterValues(Compiled, {}),
                Values)
    /\ Len(Values) <= Len(Compiled.filter) + 3
    /\ Count(Text, " AND ") = Len(Compiled.filter)
    /\ " WHERE " \notin Tokens(Text)

C4_Witness ==
  /\ Bucketed
  /\ pc = "createQuery"
  /\ Len(query.filter) = 3
  /\ Values = <<DateV(10), DateV(20)>> \o FilterValues(query, {})

-----------------------------------------------------------------------------
(* C5 (as stated): with one datetime group-by dimension D and datetime     *)
(* filters holding both a lower and an upper bound, a datetime filter on a *)
(* column other than D.column, at any position, makes createQuery fail     *)
(* with the mismatched-range-column error.                                 *)
C5_AnyRangeFilterMismatch ==
  ( /\ pc # "input" /\ Validate(Compiled)
    /\ OneBucketDimension(Compiled) /\ HasBothBounds(Compiled)
    /\ \E i \in 1..Len(DatetimeFilters(Compiled)) :
         DatetimeFilters(Compiled)[i].column # BucketColumn(Compiled) )
  => (~result.ok /\ result.err = MismatchedRangeColumn)

(* C5 (amended): createQuery fails with the mismatched-range-column error  *)
(* when the first lower-bound filter or the first upper-bound filter of    *)
(* the list is on a column other than D.column; a mismatching datetime     *)
(* filter behind them is not looked at.                                    *)
C5_FirstBoundsMismatch ==
  ( /\ pc # "input" /\ Validate(Compiled)
    /\ OneBucketDimension(Compiled) /\ HasBothBounds(Compiled) )
  => ( (~result.ok /\ result.err = MismatchedRangeColumn)
         <=> FirstBoundMismatch(Compiled) )

C5_Witness ==
  /\ pc = "createQuery"
  /\ OneBucketDimension(query) /\ HasBothBounds(query)
  /\ BucketColumn(query) = "timestamp"
  /\ LowerBounds(query)[1].column = "timestamp"
  /\ UpperBounds(query)[1].column = "type"
  /\ result = Fail(MismatchedRangeColumn)

-----------------------------------------------------------------------------
(* C6 (as stated): a column absent from the table's registry entry, in     *)
(* select, filter, groupBy or orderBy, makes createQuery fail with the     *)
(* column-not-found error and return no statement, whatever the other      *)
(* fields of the query are.                                                *)
C6_ColumnNotFound ==
  (pc # "input" /\ Validate(Compiled) /\ UnknownColumn(Compiled)) =>
    (~result.ok /\ result.sql = Empty /\ result.err = ColumnNotFound)

(* C6 (amended): such a query never yields a statement; the error is the   *)
(* column-not-found error unless the bucket planner, which runs first,     *)
(* rejects the query for a second datetime group-by or for a mismatched    *)
(* range column.                                                           *)
C6_NoStatement ==
  (pc # "input" /\ Validate(Compiled) /\ UnknownColumn(Compiled)) =>
    /\ ~result.ok /\ result.sql = Empty
    /\ result.err =
         IF Len(DatetimeGroupBys(Compiled)) > 1 THEN MultipleDatetimeGroupBy
         ELSE IF /\ OneBucketDimension(Compiled) /\ HasBothBounds(Compiled)
                 /\ FirstBoundMismatch(Compiled)
              THEN MismatchedRangeColumn
              ELSE ColumnNotFound

C6_Witness ==
  /\ pc = "createQuery"
  /\ query.groupBy = <<[type |-> "datetime", column |-> "evil", temporalUnit |-> "day"]>>
  /\ QueryColumns(query) \ ColumnNames(query.from) = {"evil"}
  /\ Len(query.select) = 1 /\ Len(query.filter) = 1
  /\ result = Fail(ColumnNotFound)

-----------------------------------------------------------------------------
GroupByTerm(table, g) ==
  IF g.type = "datetime" THEN SeriesColumn ELSE InternalOf(table, g.column)

(* C7 (as stated): with a bucket plan the GROUP BY list is the series      *)
(* column first, then the expression of each categorical groupBy entry in  *)
(* the order given, wherever the datetime entry stands in groupBy.         *)
C7_SeriesColumnFirst ==
  Bucketed =>
    GroupByClause(Text) =
      LET cats == SelectSeq(query.groupBy, LAMBDA g : g.type # "datetime")
      IN Flatten(<<<<SeriesColumn>>>> \o
                   [k \in 1..Len(cats) |-> <<InternalOf(query.from, cats[k].column)>>],
                 ", ")

(* C7 (amended): with a bucket plan the GROUP BY list has one term per     *)
(* groupBy entry, in the order given: the series column at the position of *)
(* the datetime entry, the registry expression for a categorical entry.    *)
C7_SeriesColumnInPlace ==
  Bucketed =>
    GroupByClause(Text) =
      Flatten([k \in 1..Len(query.groupBy) |->
                 <<GroupByTerm(query.from, query.groupBy[k])>>], ", ")

C7_Witness ==
  /\ Bucketed
  /\ Len(query.groupBy) = 2 /\ query.groupBy[2].type = "datetime"
  /\ GroupByClause(Text) = <<InternalOf(query.from, "name"), ", ", SeriesColumn>>

-----------------------------------------------------------------------------
DateSeriesFragments ==
  {f \in SyntaxFragments :
     f \in {"date_series.\"date\"", "date_series.\"date\" ASC",
            "date_series.\"date\" as \"",
            "WITH date_series AS ( SELECT generate_series(",
            " FROM date_series LEFT JOIN ", "', date_series.\"date\")"}}

NoBucketPlan(q) ==
  \/ Len(DatetimeFilters(q)) < 2
  \/ LowerBounds(q) = <<>>
  \/ UpperBounds(q) = <<>>

(* C8: with one datetime group-by dimension and no bucket plan, createQuery *)
(* does not fail and groups without a synthetic series: plain table as      *)
(* FROM, no date_series CTE, and no clause refers to date_series.           *)
C8_NoSeriesWithoutPlan ==
  ( /\ pc # "input" /\ Validate(Compiled) /\ ~UnknownColumn(Compiled)
    /\ OneBucketDimension(Compiled) /\ NoBucketPlan(Compiled) )
  => /\ result.ok
     /\ Tokens(Text) \cap DateSeriesFragments = {}
     /\ \E i \in 1..(Len(Text) - 1) :
          Text[i] = " FROM " /\ Text[i + 1] = tableDefinitions[query.from].table

-----------------------------------------------------------------------------
CastFragment == "::\"ObservationType\""

FiltersOn(q, column, kinds) ==
  Cardinality({i \in 1..Len(q.filter) :
                 q.filter[i].column = column /\ q.filter[i].type \in kinds})

(* C9 (as stated): every filter on column type of table observations,      *)
(* string, number or datetime, carries the cast to the enumerated type,    *)
(* and no filter on another table/column pair does.                        *)
C9_CastWhateverKind ==
  Returned =>
    Count(Text, CastFragment) =
      IF query.from = "observations"
      THEN FiltersOn(Compiled, "type", {"string", "number", "datetime"}) ELSE 0

(* C9 (amended): every string or number filter on column type of table     *)
(* observations carries the cast; a datetime filter on that column does    *)
(* not, and no filter on another table/column pair does.                   *)
C9_CastUnlessDatetime ==
  Returned =>
    /\ Count(Text, CastFragment) =
         IF query.from = "observations"
         THEN FiltersOn(Compiled, "type", {"string", "number"}) ELSE 0
    /\ \A i \in 1..Len(Text) :
         Text[i] = CastFragment =>
           /\ i > 6
           /\ Text[i - 6] = InternalOf("observations", "type")
           /\ Text[i - 2] = "?"

C9_Witness ==
  /\ Returned
  /\ query.from = "observations"
  /\ FiltersOn(query, "type", {"datetime"}) = 1
  /\ FiltersOn(query, "type", {"string"}) = 1
  /\ FiltersOn(query, "type", {"number"}) = 1
  /\ Count(Text, CastFragment) = 2

-----------------------------------------------------------------------------
(* C10: createQuery emits a trailing LIMIT exactly when the query has a     *)
(* limit: for every accepted limit, 0 included, the statement ends with     *)
(* LIMIT bound to that value as the last parameter; without a limit there   *)
(* is no LIMIT clause.                                                      *)
C10_LimitIffSpecified ==
  Returned =>
    IF query.limit # <<>>
    THEN /\ Len(Text) >= 3 /\ Len(Values) >= 1
         /\ SubSeq(Text, Len(Text) - 2, Len(Text)) = <<" LIMIT ", "?", ";">>
         /\ Values[Len(Values)] = NumV(query.limit[1])
    ELSE " LIMIT " \notin Tokens(Text)

====
